---- MODULE Spec2Model ----
(***************************************************************************)
(* Model of the agent-run pipeline of the Rayyan backend:                  *)
(*   backend/src/routers/agent.py   (create_message, run_agent_stream,     *)
(*                                   event_generator, sse_event)           *)
(*   backend/src/routers/agent.py   (get_chat_history, get_thread_messages)*)
(*   backend/src/routers/threads.py (get_thread, update_thread,            *)
(*                                   delete_thread)                        *)
(*   backend/src/models/{thread,message,run}.py                            *)
(*                                                                         *)
(* The database holds the committed rows of threads, messages and runs.    *)
(* Every request is a coroutine that advances from one await/yield to the  *)
(* next; what other requests can see is what has been committed.           *)
(***************************************************************************)
EXTENDS Integers, Sequences, FiniteSets, TLC

VARIABLES
    threads,          \* committed rows of table threads: id -> row
    messages,         \* committed rows of table messages, in insertion order
    runs,             \* committed rows of table runs, in insertion order
    pc,               \* position of each request's coroutine
    req,              \* path/body parameters of each request
    next_pos,         \* create_message: next_pos read by the SELECT
    current_tokens,   \* event_generator: accumulated token text
    reasoning_steps,  \* event_generator: recorded reasoning steps
    tool_calls_made,  \* event_generator: recorded tool calls
    exc,              \* str(e) of the exception being handled
    frames,           \* SSE frames the client of each request has received
    emitted,          \* events the orchestrator has produced for each request
    budget,           \* orchestrator events each request may still receive
    vocabulary,       \* the events the orchestrator of each request can produce
    agent_messages,   \* event_generator: the message list handed to the agent
    response,         \* the last response of the threads, messages and farms
                      \* routes
    farms,            \* committed rows of table farms: id -> row
    tool_output,      \* what the last call of an advisory tool returned
    overlapped        \* thread -> some create_message read while another one
                      \* on that thread was between its read and its commit

vars == <<threads, messages, runs, pc, req, next_pos, current_tokens,
          reasoning_steps, tool_calls_made, exc, frames, emitted, budget,
          vocabulary, agent_messages, response, farms, tool_output,
          overlapped>>

----
\* Bounds

Procs == {"p1", "p2"}
ThreadIds == {"t1", "t2"}
Users == {"u1", "u2"}
\* orchestrator events per run when two requests run concurrently
MaxEventsConc == 1
\* orchestrator events per run when one request runs alone
MaxEvents == 3
\* orchestrator events of the run whose agent is the one build_agricultural_agent
\* makes
MaxEventsRegistry == 2
\* messages a thread may hold from earlier turns when a request arrives
MaxPrior == 21

----
\* Values

NULL == "NULL"
\* datetime.now(timezone.utc) / func.now(): some non-null timestamp
Now == "ts"

\* Python values that reach json.dumps, tagged with their Python type
PyStr(s) == [py |-> "str", v |-> s]
PyDict(d) == [py |-> "dict", v |-> d]
PyUUID(u) == [py |-> "UUID", v |-> u]
PyObject(cls) == [py |-> "object", v |-> cls]

\* uuid.uuid4 column defaults: a fresh id for each row a request creates
uuid4(p, tag) == <<p, tag>>

Owner(t) == IF t = "t1" THEN "u1" ELSE "u2"

\* models/message.py MessageRole
MessageRole == {"user", "assistant", "system"}
\* models/run.py RunStatus
RunStatus == {"pending", "running", "completed", "failed", "cancelled"}
TerminalStatus == {"completed", "failed", "cancelled"}

\* payload.content of the requests
Contents == {"q"}

----
\* The orchestrator (agent.astream_events): the events it may produce

Ev(event, name, content, input, output) ==
    [event |-> event, name |-> name,
     data |-> [content |-> content, input |-> input, output |-> output]]

NoInput == [none |-> ""]
PyNone == [py |-> "NoneType", v |-> ""]
NoOutput == PyNone
ReasonTool == "reason_step"
SoilTool == "analyze_soil_conditions"

OrchestratorEvents ==
    { Ev("on_chat_model_stream", "llm", "a", NoInput, NoOutput),
      Ev("on_chat_model_stream", "llm", "b", NoInput, NoOutput),
      Ev("on_chat_model_stream", "llm", "", NoInput, NoOutput),
      Ev("on_tool_start", ReasonTool, "", [title |-> "plan"], NoOutput),
      Ev("on_tool_start", SoilTool, "", [zone_id |-> "A"], NoOutput),
      Ev("on_tool_end", SoilTool, "", NoInput, PyDict("soil")),
      Ev("on_tool_end", SoilTool, "", NoInput, PyObject("ToolMessage")),
      Ev("on_chain_start", "agent", "", NoInput, NoOutput) }

\* a registry that also holds a tool named after the reasoning marker
create_agricultural_tools_with_marker ==
    {"get_weather_forecast", "analyze_soil_conditions", "analyze_water_quality",
     "detect_pest_activity", "calculate_irrigation_schedule",
     "recommend_fertigation", ReasonTool}

\* create_agricultural_tools: the names of the tools of the agent
create_agricultural_tools ==
    {"get_weather_forecast", "analyze_soil_conditions", "analyze_water_quality",
     "detect_pest_activity", "calculate_irrigation_schedule",
     "recommend_fertigation"}

\* the events of an orchestrator that starts the tools of the registry only
RegistryEvents ==
    { Ev("on_chat_model_stream", "llm", "a", NoInput, NoOutput),
      Ev("on_tool_end", SoilTool, "", NoInput, PyDict("soil")) }
    \cup { Ev("on_tool_start", tool, "", [zone_id |-> "A"], NoOutput) :
               tool \in create_agricultural_tools }

\* the events of the orchestrator while two requests run concurrently
ConcurrentEvents ==
    { Ev("on_chat_model_stream", "llm", "a", NoInput, NoOutput),
      Ev("on_tool_start", SoilTool, "", [zone_id |-> "A"], NoOutput) }

\* dict.get(key, default)
Get(d, key, default) == IF key \in DOMAIN d THEN d[key] ELSE default

----
\* sse_event: "event: <event>\ndata: <json.dumps(data)>\n\n"

\* json.dumps raises TypeError on a value that is no str/dict/list/None
\* (uuid.UUID and library objects have no JSON encoding)
JsonSerializable(v) == v.py \in {"str", "dict", "list", "NoneType"}

json_dumps_raises(data) == \E k \in DOMAIN data : ~JsonSerializable(data[k])

TypeErrorMsg == "Object is not JSON serializable"

sse_event(event, data) == [event |-> event, data |-> data]

----
\* Queries on the committed tables

\* SQL max(): <<>> stands for the SQL NULL of an empty aggregate, <<v>> for v
RECURSIVE SeqMax(_)
SeqMax(s) ==
    IF s = <<>> THEN <<>>
    ELSE LET m == SeqMax(Tail(s))
         IN  IF m = <<>> \/ Head(s) > m[1] THEN <<Head(s)>> ELSE m

ThreadMessages(t) == SelectSeq(messages, LAMBDA m : m.thread_id = t)

Positions(t) == [i \in DOMAIN ThreadMessages(t) |-> ThreadMessages(t)[i].position]

coalesce(x, default) == IF x = <<>> THEN default ELSE x[1]

\* a position query whose coalesce default is 1 instead of 0
NextPositionFromOne(t) == coalesce(SeqMax(Positions(t)), 1) + 1

\* select(func.coalesce(func.max(Message.position), 0) + 1)
\*     .where(Message.thread_id == thread_id)
NextPosition(t) == coalesce(SeqMax(Positions(t)), 0) + 1

ThreadExists(t) == t \in DOMAIN threads

RunExists(id) == \E i \in DOMAIN runs : runs[i].id = id
MessageExists(id) == \E i \in DOMAIN messages : messages[i].id = id
RunRow(id) == runs[CHOOSE i \in DOMAIN runs : runs[i].id = id]
MessageRow(id) == messages[CHOOSE i \in DOMAIN messages : messages[i].id = id]

\* an update of status and metadata that leaves completed_at as it was
UpdateRunStatusOnly(id, status, completed_at, metadata) ==
    [i \in DOMAIN runs |->
        IF runs[i].id = id
        THEN [runs[i] EXCEPT !.status = status, !.metadata_ = metadata]
        ELSE runs[i]]

\* UPDATE runs SET ... WHERE id = :id
UpdateRun(id, status, completed_at, metadata) ==
    [i \in DOMAIN runs |->
        IF runs[i].id = id
        THEN [runs[i] EXCEPT !.status = status,
                             !.completed_at = completed_at,
                             !.metadata_ = metadata]
        ELSE runs[i]]

----
\* Rows (models/message.py, models/run.py, models/thread.py)

EmptyDict == [k \in {} |-> ""]

Message(id, thread_id, position, role, content, metadata) ==
    [id |-> id, thread_id |-> thread_id, position |-> position, role |-> role,
     content |-> content, metadata_ |-> metadata]

\* a run row left at the column default of status
RunWithDefaultStatus(id, thread_id, status, started_at) ==
    [id |-> id, thread_id |-> thread_id, status |-> "pending",
     metadata_ |-> EmptyDict, started_at |-> started_at, completed_at |-> NULL]

Run(id, thread_id, status, started_at) ==
    [id |-> id, thread_id |-> thread_id, status |-> status,
     metadata_ |-> EmptyDict, started_at |-> started_at, completed_at |-> NULL]

Thread(user_id) ==
    [user_id |-> user_id, title |-> NULL, is_pinned |-> FALSE,
     last_message_at |-> NULL]

----
\* Initial states

NoRequest == [thread_id |-> "none", user_id |-> "none", content |-> ""]

\* no route of the threads and messages routers has answered yet
NoResponse == [status |-> 0, body |-> <<>>]

\* no advisory tool has been called yet
NoToolOutput == [tool |-> "none"]

FarmIds == {"f1", "f2", "f3"}

\* models/farm.py Farm: the columns the farms routes below read or write
Farm(owner_id, name) == [owner_id |-> owner_id, name |-> name, is_active |-> TRUE]

\* the farms of the two users; no farm has the third id
InitialFarms == [f \in {"f1", "f2"} |-> Farm(IF f = "f1" THEN "u1" ELSE "u2", "farm")]

InitWith(pc0, budget0, vocabulary0) ==
    /\ threads = [t \in ThreadIds |-> Thread(Owner(t))]
    /\ messages = <<>>
    /\ runs = <<>>
    /\ pc = pc0
    /\ req = [p \in Procs |-> NoRequest]
    /\ next_pos = [p \in Procs |-> 0]
    /\ current_tokens = [p \in Procs |-> ""]
    /\ reasoning_steps = [p \in Procs |-> <<>>]
    /\ tool_calls_made = [p \in Procs |-> <<>>]
    /\ exc = [p \in Procs |-> ""]
    /\ frames = [p \in Procs |-> <<>>]
    /\ emitted = [p \in Procs |-> <<>>]
    /\ budget = budget0
    /\ vocabulary = vocabulary0
    /\ agent_messages = [p \in Procs |-> <<>>]
    /\ response = NoResponse
    /\ farms = InitialFarms
    /\ tool_output = NoToolOutput
    /\ overlapped = [t \in ThreadIds |-> FALSE]

\* two requests in flight at once; the orchestrator of the first one streams
\* tokens and tool starts, that of the second one produces no event before it
\* ends or raises
Init ==
    InitWith([p \in Procs |-> "start"],
             [p \in Procs |-> IF p = "p1" THEN MaxEventsConc ELSE 0],
             [p \in Procs |-> IF p = "p1" THEN ConcurrentEvents ELSE {}])

\* one request on its own, with a longer orchestrator stream of any events
InitSolo ==
    InitWith([p \in Procs |-> IF p = "p1" THEN "start" ELSE "idle"],
             [p \in Procs |-> IF p = "p1" THEN MaxEvents ELSE 0],
             [p \in Procs |-> IF p = "p1" THEN OrchestratorEvents ELSE {}])

\* The earlier turns of a thread: turn i left a user message at position
\* 2i-1, an assistant message at position 2i, and a run that is failed (the
\* done event could not be built, or, for a turn with no assistant message,
\* the orchestrator raised).
PriorTurns == <<"h1", "h2", "h3", "h4", "h5", "h6", "h7", "h8", "h9", "h10",
                "h11", "h12">>

TurnOf(j) == PriorTurns[(j + 1) \div 2]

PriorMessage(t, j) ==
    IF j % 2 = 1
    THEN Message(uuid4(TurnOf(j), "user"), t, j, "user", "q", EmptyDict)
    ELSE Message(uuid4(TurnOf(j), "assistant"), t, j, "assistant", "a",
                 [reasoning_steps |-> <<>>, tool_calls |-> <<>>,
                  run_id |-> uuid4(TurnOf(j), "run")])

PriorRun(t, i, k) ==
    [id |-> uuid4(PriorTurns[i], "run"), thread_id |-> t, status |-> "failed",
     metadata_ |-> [error |-> IF 2 * i <= k THEN "Object is not JSON serializable"
                              ELSE "orchestrator error"],
     started_at |-> Now, completed_at |-> Now]

\* one request arrives on a thread that holds k messages of earlier turns
InitHistory ==
    \E k \in 0..MaxPrior :
        /\ threads = [t \in ThreadIds |->
                        IF t = "t1" /\ k > 0
                        THEN [Thread(Owner(t)) EXCEPT !.last_message_at = Now]
                        ELSE Thread(Owner(t))]
        /\ messages = [j \in 1..k |-> PriorMessage("t1", j)]
        /\ runs = [i \in 1..((k + 1) \div 2) |-> PriorRun("t1", i, k)]
        /\ pc = [p \in Procs |-> IF p = "p1" THEN "start" ELSE "idle"]
        /\ req = [p \in Procs |-> NoRequest]
        /\ next_pos = [p \in Procs |-> 0]
        /\ current_tokens = [p \in Procs |-> ""]
        /\ reasoning_steps = [p \in Procs |-> <<>>]
        /\ tool_calls_made = [p \in Procs |-> <<>>]
        /\ exc = [p \in Procs |-> ""]
        /\ frames = [p \in Procs |-> <<>>]
        /\ emitted = [p \in Procs |-> <<>>]
        /\ budget = [p \in Procs |-> IF p = "p1" THEN MaxEventsConc ELSE 0]
        /\ vocabulary = [p \in Procs |-> IF p = "p1" THEN ConcurrentEvents ELSE {}]
        /\ agent_messages = [p \in Procs |-> <<>>]
        /\ response = NoResponse
        /\ farms = InitialFarms
        /\ tool_output = NoToolOutput
    /\ farms = InitialFarms
    /\ tool_output = NoToolOutput
        /\ overlapped = [t \in ThreadIds |-> FALSE]

\* one request whose orchestrator starts the tools of the registry only
InitRegistry ==
    InitWith([p \in Procs |-> IF p = "p1" THEN "start" ELSE "idle"],
             [p \in Procs |-> IF p = "p1" THEN MaxEventsRegistry ELSE 0],
             [p \in Procs |-> IF p = "p1" THEN RegistryEvents ELSE {}])

\* one request with a short stream, next to calls of the other routes
InitApi ==
    InitWith([p \in Procs |-> IF p = "p1" THEN "start" ELSE "idle"],
             [p \in Procs |-> IF p = "p1" THEN MaxEventsConc ELSE 0],
             [p \in Procs |-> IF p = "p1" THEN ConcurrentEvents ELSE {}])

----
\* Exceptions

DbErrorMsg == "database write failed"
DbReadErrorMsg == "database read failed"
BuildErrorMsg == "agent build failed"
OrchestratorErrorMsg == "orchestrator error"

\* an exception raised inside the try block of event_generator
Raise(p, msg) ==
    /\ pc' = [pc EXCEPT ![p] = "except"]
    /\ exc' = [exc EXCEPT ![p] = msg]

----
\* run_agent_stream, up to the StreamingResponse

\* a lookup by thread id alone
ThreadOwnedByAnyone(t, u) == ThreadExists(t)

\* select(Thread).where(Thread.id == thread_id, Thread.user_id == user_id)
ThreadOwnedBy(t, u) == ThreadExists(t) /\ threads[t].user_id = u

\* POST /agent/threads/{thread_id}/run arrives; get_thread_or_404
Request(p) ==
    /\ pc[p] = "start"
    /\ \E t \in ThreadIds, u \in Users, c \in Contents :
          /\ req' = [req EXCEPT ![p] = [thread_id |-> t, user_id |-> u, content |-> c]]
          /\ pc' = [pc EXCEPT ![p] = IF ThreadOwnedBy(t, u) THEN "user_read"
                                     ELSE "http_404"]
    /\ UNCHANGED <<threads, messages, runs, next_pos, current_tokens,
                   reasoning_steps, tool_calls_made, exc, frames, emitted,
                   budget, overlapped>>
    /\ UNCHANGED <<vocabulary, agent_messages, response, farms, tool_output>>

InCreateMessageCommit(q) == pc[q] \in {"user_commit", "asst_commit"}

\* a create_message that leaves the thread row alone
TouchThreadSkipped(t) == threads

\* thread = select(Thread).where(Thread.id == thread_id);
\* if thread: thread.last_message_at = func.now()
TouchThread(t) ==
    IF ThreadExists(t) THEN [threads EXCEPT ![t].last_message_at = Now]
    ELSE threads

\* create_message, first await: the SELECT of the next position
CreateMessageRead(p) ==
    /\ pc[p] \in {"user_read", "asst_read"}
    /\ LET t == req[p].thread_id IN
          /\ next_pos' = [next_pos EXCEPT ![p] = NextPosition(t)]
          /\ overlapped' = [overlapped EXCEPT ![t] =
                @ \/ \E q \in Procs \ {p} :
                        InCreateMessageCommit(q) /\ req[q].thread_id = t]
    /\ pc' = [pc EXCEPT ![p] = IF pc[p] = "user_read" THEN "user_commit"
                               ELSE "asst_commit"]
    /\ UNCHANGED <<threads, messages, runs, req, current_tokens,
                   reasoning_steps, tool_calls_made, exc, frames, emitted,
                   budget>>
    /\ UNCHANGED <<vocabulary, agent_messages, response, farms, tool_output>>

\* final_content = "" ; if current_tokens: final_content = current_tokens
final_content(p) == IF current_tokens[p] # "" THEN current_tokens[p] ELSE ""

\* assistant metadata that does not name the run
AssistantMetadataWithoutRun(p) ==
    [reasoning_steps |-> reasoning_steps[p],
     tool_calls |-> tool_calls_made[p],
     run_id |-> uuid4("none", "run")]

\* metadata={"reasoning_steps": ..., "tool_calls": ..., "run_id": run.id}
AssistantMetadata(p) ==
    [reasoning_steps |-> reasoning_steps[p],
     tool_calls |-> tool_calls_made[p],
     run_id |-> uuid4(p, "run")]

\* the row create_message adds for its call site
NewMessage(p) ==
    IF pc[p] = "user_commit"
    THEN Message(uuid4(p, "user"), req[p].thread_id, next_pos[p], "user",
                 req[p].content, EmptyDict)
    ELSE Message(uuid4(p, "assistant"), req[p].thread_id, next_pos[p],
                 "assistant", final_content(p), AssistantMetadata(p))

\* create_message, the rest: INSERT of the message, UPDATE of the thread's
\* last_message_at, COMMIT.  The INSERT violates the foreign key when the
\* thread row is gone; any statement may fail in the database.  The
\* assistant's metadata holds run.id, a uuid.UUID: whether the JSONB bind
\* accepts it depends on the json_serializer of the engine, so both outcomes
\* of the statement are kept.
CreateMessageCommit(p) ==
    /\ InCreateMessageCommit(p)
    /\ \E ok \in BOOLEAN :
          IF ok /\ ThreadExists(req[p].thread_id)
          THEN /\ messages' = Append(messages, NewMessage(p))
               /\ threads' = TouchThread(req[p].thread_id)
               /\ pc' = [pc EXCEPT ![p] = IF pc[p] = "user_commit" THEN "run_create"
                                          ELSE "complete"]
               /\ exc' = exc
          ELSE /\ UNCHANGED <<messages, threads>>
               /\ IF pc[p] = "user_commit"
                  THEN pc' = [pc EXCEPT ![p] = "http_500"] /\ exc' = exc
                  ELSE Raise(p, DbErrorMsg)
    /\ UNCHANGED <<runs, req, next_pos, current_tokens, reasoning_steps,
                   tool_calls_made, frames, emitted, budget, overlapped>>
    /\ UNCHANGED <<vocabulary, agent_messages, response, farms, tool_output>>

\* run = Run(status=running, started_at=now); db.add(run); await db.commit()
CreateRun(p) ==
    /\ pc[p] = "run_create"
    /\ \E ok \in BOOLEAN :
          IF ok /\ ThreadExists(req[p].thread_id)
          THEN /\ runs' = Append(runs, Run(uuid4(p, "run"), req[p].thread_id,
                                           "running", Now))
               /\ pc' = [pc EXCEPT ![p] = "gen_build"]
          ELSE /\ runs' = runs
               /\ pc' = [pc EXCEPT ![p] = "http_500"]
    /\ UNCHANGED <<threads, messages, req, next_pos, current_tokens,
                   reasoning_steps, tool_calls_made, exc, frames, emitted,
                   budget, overlapped>>
    /\ UNCHANGED <<vocabulary, agent_messages, response, farms, tool_output>>

----
\* event_generator

\* agent = build_agricultural_agent(); system_prompt = get_system_prompt()
BuildAgent(p) ==
    /\ pc[p] = "gen_build"
    /\ \E ok \in BOOLEAN :
          IF ok THEN pc' = [pc EXCEPT ![p] = "gen_history"] /\ exc' = exc
          ELSE Raise(p, BuildErrorMsg)
    /\ UNCHANGED <<threads, messages, runs, req, next_pos, current_tokens,
                   reasoning_steps, tool_calls_made, frames, emitted, budget,
                   overlapped>>
    /\ UNCHANGED <<vocabulary, agent_messages, response, farms, tool_output>>

\* the limit of get_chat_history at its call site
HistoryLimit == 20

Max(S) == CHOOSE x \in S : \A y \in S : y <= x

\* ORDER BY position DESC LIMIT k over the rows msgs[i], i \in S: the index
\* sequences the database may return (rows of equal position in any order)
RECURSIVE TopByPosition(_, _, _)
TopByPosition(msgs, S, k) ==
    IF k = 0 \/ S = {} THEN {<<>>}
    ELSE LET top == Max({msgs[i].position : i \in S})
         IN  UNION {{<<i>> \o r : r \in TopByPosition(msgs, S \ {i}, k - 1)} :
                        i \in {j \in S : msgs[j].position = top}}

\* list.reverse()
Reverse(s) == [i \in 1..Len(s) |-> s[Len(s) + 1 - i]]

\* get_chat_history: the most recent `limit` messages of the thread, oldest
\* first; the set of lists the query may yield
get_chat_history(t, limit) ==
    LET msgs == ThreadMessages(t)
    IN  {Reverse([k \in 1..Len(ix) |-> msgs[ix[k]]]) :
            ix \in TopByPosition(msgs, DOMAIN msgs, limit)}

get_system_prompt == "You are Rayyan"

\* SystemMessage / HumanMessage / AIMessage.  The field `of` is not part of
\* the message: it records which row (or the prompt) the entry was built from.
SystemMessage(content, of) == [type |-> "system", content |-> content, of |-> of]
HumanMessage(content, of) == [type |-> "human", content |-> content, of |-> of]
AIMessage(content, of) == [type |-> "ai", content |-> content, of |-> of]

\* the loop over history with no test of msg.id against user_msg.id
RECURSIVE HistoryMessagesNoSkip(_, _)
HistoryMessagesNoSkip(history, skip_id) ==
    IF history = <<>> THEN <<>>
    ELSE LET msg == Head(history)
             rest == HistoryMessagesNoSkip(Tail(history), skip_id)
         IN  IF msg.role = "user"
             THEN <<HumanMessage(msg.content, msg.id)>> \o rest
             ELSE IF msg.role = "assistant"
             THEN <<AIMessage(msg.content, msg.id)>> \o rest
             ELSE IF msg.role = "system"
             THEN <<SystemMessage(msg.content, msg.id)>> \o rest
             ELSE rest

\* for msg in history: skip the just-created user message, map role for role
RECURSIVE HistoryMessages(_, _)
HistoryMessages(history, skip_id) ==
    IF history = <<>> THEN <<>>
    ELSE LET msg == Head(history)
             rest == HistoryMessages(Tail(history), skip_id)
         IN  IF msg.id = skip_id THEN rest
             ELSE IF msg.role = "user"
             THEN <<HumanMessage(msg.content, msg.id)>> \o rest
             ELSE IF msg.role = "assistant"
             THEN <<AIMessage(msg.content, msg.id)>> \o rest
             ELSE IF msg.role = "system"
             THEN <<SystemMessage(msg.content, msg.id)>> \o rest
             ELSE rest

\* messages = [SystemMessage(system_prompt)] + history + [HumanMessage(payload.content)]
AssembleMessages(p, history) ==
    <<SystemMessage(get_system_prompt, <<"system", "prompt">>)>>
    \o HistoryMessages(history, uuid4(p, "user"))
    \o <<HumanMessage(req[p].content, uuid4(p, "user"))>>

\* history = await get_chat_history(db, thread_id, limit=20), and the
\* assembly of the orchestrator's message list
GetChatHistory(p) ==
    /\ pc[p] = "gen_history"
    /\ \E ok \in BOOLEAN :
          IF ok
          THEN /\ \E history \in get_chat_history(req[p].thread_id, HistoryLimit) :
                     agent_messages' = [agent_messages EXCEPT ![p] =
                                           AssembleMessages(p, history)]
               /\ pc' = [pc EXCEPT ![p] = "stream"]
               /\ exc' = exc
          ELSE /\ Raise(p, DbReadErrorMsg)
               /\ agent_messages' = agent_messages
    /\ UNCHANGED <<threads, messages, runs, req, next_pos, current_tokens,
                   reasoning_steps, tool_calls_made, frames, emitted, budget,
                   vocabulary, response, overlapped, farms,
                   tool_output>>

\* yield sse_event(event, data): the frame reaches the client, unless
\* json.dumps raises inside sse_event
Yield(p, event, data, nextpc) ==
    IF json_dumps_raises(data)
    THEN Raise(p, TypeErrorMsg) /\ frames' = frames
    ELSE /\ frames' = [frames EXCEPT ![p] = Append(@, sse_event(event, data))]
         /\ pc' = [pc EXCEPT ![p] = nextpc]
         /\ exc' = exc

ReasoningStep(tool_input) ==
    [type |-> PyStr("reasoning"),
     title |-> PyStr(Get(tool_input, "title", "")),
     detail |-> PyStr(Get(tool_input, "detail", "")),
     timestamp |-> PyStr(Now)]

ToolCallStep(tool_name, tool_input) ==
    [type |-> PyStr("tool_call"),
     tool |-> PyStr(tool_name),
     input |-> PyDict(tool_input),
     timestamp |-> PyStr(Now)]

\* a relay loop with no branch for the reasoning marker
IsReasoningNever(tool_name) == FALSE

\* if tool_name == "reason_step"
IsReasoning(tool_name) == tool_name = ReasonTool

\* one iteration of "async for event in agent.astream_events(...)"
AgentEvent(p) ==
    /\ pc[p] = "stream"
    /\ budget[p] > 0
    /\ \E event \in vocabulary[p] :
          LET event_type == event.event
              event_name == event.name
              event_data == event.data
          IN
          /\ emitted' = [emitted EXCEPT ![p] = Append(@, event)]
          /\ budget' = [budget EXCEPT ![p] = @ - 1]
          /\ IF event_type = "on_chat_model_stream"
             THEN LET token == event_data.content IN
                  IF token # ""
                  THEN /\ current_tokens' = [current_tokens EXCEPT ![p] = @ \o token]
                       /\ Yield(p, "token", [content |-> PyStr(token)], "stream")
                       /\ UNCHANGED <<reasoning_steps, tool_calls_made>>
                  ELSE UNCHANGED <<current_tokens, reasoning_steps,
                                   tool_calls_made, frames, pc, exc>>
             ELSE IF event_type = "on_tool_start"
             THEN LET tool_name == event_name
                      tool_input == event_data.input
                  IN
                  IF IsReasoning(tool_name)
                  THEN LET step == ReasoningStep(tool_input) IN
                       /\ reasoning_steps' = [reasoning_steps EXCEPT ![p] = Append(@, step)]
                       /\ Yield(p, "reasoning", step, "stream")
                       /\ UNCHANGED <<current_tokens, tool_calls_made>>
                  ELSE LET step == ToolCallStep(tool_name, tool_input) IN
                       /\ tool_calls_made' = [tool_calls_made EXCEPT ![p] = Append(@, step)]
                       /\ Yield(p, "tool_start", step, "stream")
                       /\ UNCHANGED <<current_tokens, reasoning_steps>>
             ELSE IF event_type = "on_tool_end"
             THEN /\ Yield(p, "tool_end",
                           [tool |-> PyStr(event_name), output |-> event_data.output],
                           "stream")
                  /\ UNCHANGED <<current_tokens, reasoning_steps, tool_calls_made>>
             ELSE UNCHANGED <<current_tokens, reasoning_steps, tool_calls_made,
                              frames, pc, exc>>
    /\ UNCHANGED <<threads, messages, runs, req, next_pos, overlapped>>
    /\ UNCHANGED <<vocabulary, agent_messages, response, farms, tool_output>>

\* agent.astream_events raises
AgentRaise(p) ==
    /\ pc[p] = "stream"
    /\ Raise(p, OrchestratorErrorMsg)
    /\ UNCHANGED <<threads, messages, runs, req, next_pos, current_tokens,
                   reasoning_steps, tool_calls_made, frames, emitted, budget,
                   overlapped>>
    /\ UNCHANGED <<vocabulary, agent_messages, response, farms, tool_output>>

\* agent.astream_events is exhausted; create_message for the assistant starts
AgentEnd(p) ==
    /\ pc[p] = "stream"
    /\ pc' = [pc EXCEPT ![p] = "asst_read"]
    /\ UNCHANGED <<threads, messages, runs, req, next_pos, current_tokens,
                   reasoning_steps, tool_calls_made, exc, frames, emitted,
                   budget, overlapped>>
    /\ UNCHANGED <<vocabulary, agent_messages, response, farms, tool_output>>

\* a completion that records no steps
RunMetadataEmpty(p) == [reasoning_steps |-> <<>>, tool_calls |-> <<>>]

\* run.metadata_ = {"reasoning_steps": reasoning_steps, "tool_calls": tool_calls_made}
RunMetadata(p) ==
    [reasoning_steps |-> reasoning_steps[p], tool_calls |-> tool_calls_made[p]]

\* run.status = completed; run.completed_at = now; run.metadata_ = {...};
\* await db.commit().  The UPDATE finds no row when the run row is gone.
CompleteRun(p) ==
    /\ pc[p] = "complete"
    /\ \E ok \in BOOLEAN :
          IF ok /\ RunExists(uuid4(p, "run"))
          THEN /\ runs' = UpdateRun(uuid4(p, "run"), "completed", Now, RunMetadata(p))
               /\ pc' = [pc EXCEPT ![p] = "emit_done"]
               /\ exc' = exc
          ELSE /\ runs' = runs
               /\ Raise(p, DbErrorMsg)
    /\ UNCHANGED <<threads, messages, req, next_pos, current_tokens,
                   reasoning_steps, tool_calls_made, frames, emitted, budget,
                   overlapped>>
    /\ UNCHANGED <<vocabulary, agent_messages, response, farms, tool_output>>

\* the data of the done event: assistant_msg.id and run.id are uuid.UUID
DoneData(p) ==
    [message_id |-> PyUUID(uuid4(p, "assistant")),
     run_id |-> PyUUID(uuid4(p, "run")),
     content |-> PyStr(final_content(p))]

\* yield sse_event("done", {...})
EmitDone(p) ==
    /\ pc[p] = "emit_done"
    /\ Yield(p, "done", DoneData(p), "finished")
    /\ UNCHANGED <<threads, messages, runs, req, next_pos, current_tokens,
                   reasoning_steps, tool_calls_made, emitted, budget,
                   overlapped>>
    /\ UNCHANGED <<vocabulary, agent_messages, response, farms, tool_output>>

\* an update of the runs table with no WHERE clause on the run
MarkFailedEveryRun(p) ==
    [i \in DOMAIN runs |->
        [runs[i] EXCEPT !.status = "failed", !.completed_at = Now,
                        !.metadata_ = [error |-> exc[p]]]]

\* run.status = failed; run.completed_at = now; run.metadata_ = {"error": str(e)}
MarkFailed(p) == UpdateRun(uuid4(p, "run"), "failed", Now, [error |-> exc[p]])

\* a handler that rolls the session back before it writes
SessionNeedsRollbackNever(p) == FALSE

\* The exception came out of a failed flush or commit of this request's
\* session.  The except block calls no db.rollback(), so the session's
\* transaction is still the failed one and every later commit raises.
SessionNeedsRollback(p) == exc[p] = DbErrorMsg

\* except Exception as e: run.status = failed; run.completed_at = now;
\* run.metadata_ = {"error": str(e)}; await db.commit();
\* yield sse_event("error", {"message": str(e)}).
\* When the commit raises, the exception leaves the generator.
HandleException(p) ==
    /\ pc[p] = "except"
    /\ \E ok \in BOOLEAN :
          IF ok /\ RunExists(uuid4(p, "run")) /\ ~SessionNeedsRollback(p)
          THEN /\ runs' = MarkFailed(p)
               /\ frames' = [frames EXCEPT ![p] =
                     Append(@, sse_event("error", [message |-> PyStr(exc[p])]))]
               /\ pc' = [pc EXCEPT ![p] = "finished"]
          ELSE /\ UNCHANGED <<runs, frames>>
               /\ pc' = [pc EXCEPT ![p] = "escaped"]
    /\ UNCHANGED <<threads, messages, req, next_pos, current_tokens,
                   reasoning_steps, tool_calls_made, exc, emitted, budget,
                   overlapped>>
    /\ UNCHANGED <<vocabulary, agent_messages, response, farms, tool_output>>

----
\* the places where event_generator is suspended in an await or a yield
Suspended(p) ==
    pc[p] \in {"gen_history", "stream", "asst_read", "asst_commit", "complete",
               "except"}

\* The client goes away: the server cancels the task that iterates the
\* generator.  CancelledError / GeneratorExit are not subclasses of Exception,
\* so "except Exception" does not run and the generator just ends.
Disconnect(p) ==
    /\ Suspended(p)
    /\ pc' = [pc EXCEPT ![p] = "disconnected"]
    /\ UNCHANGED <<threads, messages, runs, req, next_pos, current_tokens,
                   reasoning_steps, tool_calls_made, exc, frames, emitted,
                   budget, vocabulary, agent_messages, response, overlapped, farms,
                   tool_output>>

----
\* routers/threads.py and the messages route of routers/agent.py

\* raise HTTPException(status_code=...)
HTTPException(status_code) == [status |-> status_code, body |-> <<>>]

\* the response of a route that returns
Response(status_code, body) == [status |-> status_code, body |-> body]

\* select(func.count()).select_from(Message).where(Message.thread_id == thread.id)
MessageCount(t) == Len(ThreadMessages(t))

ThreadResponse(t, message_count) ==
    [id |-> t, user_id |-> threads[t].user_id, title |-> threads[t].title,
     is_pinned |-> threads[t].is_pinned,
     last_message_at |-> threads[t].last_message_at,
     message_count |-> message_count]

\* a deletion that removes the rows of the thread's messages and runs and
\* keeps the thread row
ThreadsAfterDeleteKept(t) == threads

\* await db.delete(thread)
ThreadsAfterDelete(t) == [x \in DOMAIN threads \ {t} |-> threads[x]]

\* a deletion that leaves the runs of the thread behind
RunsAfterDeleteKept(t) == runs

\* runs.thread_id: ForeignKey("threads.id", ondelete="CASCADE")
RunsAfterDelete(t) == SelectSeq(runs, LAMBDA r : r.thread_id # t)

\* messages.thread_id: ForeignKey("threads.id", ondelete="CASCADE")
MessagesAfterDelete(t) == SelectSeq(messages, LAMBDA m : m.thread_id # t)

\* DELETE /threads/{thread_id}: 404 unless the thread exists and is the
\* user's; the thread row goes, and with it (cascade) its messages and runs
DeleteThread(t, u) ==
    /\ IF ThreadOwnedBy(t, u)
       THEN /\ threads' = ThreadsAfterDelete(t)
            /\ messages' = MessagesAfterDelete(t)
            /\ runs' = RunsAfterDelete(t)
            /\ response' = Response(204, <<>>)
       ELSE /\ UNCHANGED <<threads, messages, runs>>
            /\ response' = HTTPException(404)
    /\ UNCHANGED <<pc, req, next_pos, current_tokens, reasoning_steps,
                   tool_calls_made, exc, frames, emitted, budget, vocabulary,
                   agent_messages, overlapped, farms,
                   tool_output>>

\* GET /threads/{thread_id}
GetThread(t, u) ==
    /\ response' = IF ThreadOwnedBy(t, u)
                   THEN Response(200, <<ThreadResponse(t, MessageCount(t))>>)
                   ELSE HTTPException(404)
    /\ UNCHANGED <<threads, messages, runs, pc, req, next_pos, current_tokens,
                   reasoning_steps, tool_calls_made, exc, frames, emitted,
                   budget, vocabulary, agent_messages, overlapped, farms,
                   tool_output>>

\* ThreadUpdate: a field left out of the payload is <<>>, a field given is <<v>>
ThreadUpdate(title, is_pinned) == [title |-> title, is_pinned |-> is_pinned]

Payloads == {ThreadUpdate(<<"renamed">>, <<>>), ThreadUpdate(<<>>, <<TRUE>>)}

\* if payload.title is not None: thread.title = payload.title
\* if payload.is_pinned is not None: thread.is_pinned = payload.is_pinned
ApplyUpdate(row, payload) ==
    [row EXCEPT !.title = IF payload.title # <<>> THEN payload.title[1] ELSE @,
                !.is_pinned = IF payload.is_pinned # <<>>
                              THEN payload.is_pinned[1] ELSE @]

\* PATCH /threads/{thread_id}
UpdateThread(t, u, payload) ==
    /\ IF ThreadOwnedBy(t, u)
       THEN /\ threads' = [threads EXCEPT ![t] = ApplyUpdate(@, payload)]
            /\ response' = Response(200,
                  <<[ThreadResponse(t, MessageCount(t)) EXCEPT
                        !.title = ApplyUpdate(threads[t], payload).title,
                        !.is_pinned = ApplyUpdate(threads[t], payload).is_pinned]>>)
       ELSE /\ threads' = threads
            /\ response' = HTTPException(404)
    /\ UNCHANGED <<messages, runs, pc, req, next_pos, current_tokens,
                   reasoning_steps, tool_calls_made, exc, frames, emitted,
                   budget, vocabulary, agent_messages, overlapped, farms,
                   tool_output>>

\* the default of the limit parameter of get_thread_messages
DefaultLimit == 50

Limits == {1, DefaultLimit}

Min(a, b) == IF a <= b THEN a ELSE b

\* ORDER BY position DESC LIMIT limit
LastByPosition(msgs, limit) ==
    {[k \in 1..Len(ix) |-> msgs[ix[k]]] :
        ix \in TopByPosition(msgs, DOMAIN msgs, Min(limit, Len(msgs)))}

\* ORDER BY position ASC LIMIT limit: the lists the database may return
FirstByPosition(msgs, limit) ==
    {SubSeq(Reverse([k \in 1..Len(ix) |-> msgs[ix[k]]]), 1, Min(limit, Len(msgs))) :
        ix \in TopByPosition(msgs, DOMAIN msgs, Len(msgs))}

MessageResponse(m) ==
    [id |-> m.id, thread_id |-> m.thread_id, position |-> m.position,
     role |-> m.role, content |-> m.content, metadata |-> m.metadata_]

\* GET /agent/threads/{thread_id}/messages
GetThreadMessages(t, u, limit) ==
    /\ IF ThreadOwnedBy(t, u)
       THEN \E ms \in FirstByPosition(ThreadMessages(t), limit) :
               response' = Response(200, [i \in DOMAIN ms |-> MessageResponse(ms[i])])
       ELSE response' = HTTPException(404)
    /\ UNCHANGED <<threads, messages, runs, pc, req, next_pos, current_tokens,
                   reasoning_steps, tool_calls_made, exc, frames, emitted,
                   budget, vocabulary, agent_messages, overlapped, farms,
                   tool_output>>

----
Next ==
    \/ \E p \in Procs : Request(p)
    \/ \E p \in Procs : CreateMessageRead(p)
    \/ \E p \in Procs : CreateMessageCommit(p)
    \/ \E p \in Procs : CreateRun(p)
    \/ \E p \in Procs : BuildAgent(p)
    \/ \E p \in Procs : GetChatHistory(p)
    \/ \E p \in Procs : AgentEvent(p)
    \/ \E p \in Procs : AgentRaise(p)
    \/ \E p \in Procs : AgentEnd(p)
    \/ \E p \in Procs : CompleteRun(p)
    \/ \E p \in Procs : EmitDone(p)
    \/ \E p \in Procs : HandleException(p)
    \/ \E p \in Procs : Disconnect(p)
    \/ \E t \in ThreadIds, u \in Users : DeleteThread(t, u)

Spec == Init /\ [][Next]_vars

SpecSolo == InitSolo /\ [][Next]_vars

SpecRegistry == InitRegistry /\ [][Next]_vars

SpecHistory == InitHistory /\ [][Next]_vars

\* the run pipeline together with the other thread-scoped routes
NextApi ==
    \/ Next
    \/ \E t \in ThreadIds, u \in Users : GetThread(t, u)
    \/ \E t \in ThreadIds, u \in Users, payload \in Payloads : UpdateThread(t, u, payload)
    \/ \E t \in ThreadIds, u \in Users, limit \in Limits : GetThreadMessages(t, u, limit)

SpecApi == InitApi /\ [][NextApi]_vars

----
\* agent/tools.py: calculate_irrigation_schedule and recommend_fertigation.
\* A str is the sequence of its characters.

LowerCase == <<"a", "b", "c", "d", "e", "f", "g", "h", "i", "j", "k", "l", "m",
               "n", "o", "p", "q", "r", "s", "t", "u", "v", "w", "x", "y", "z">>
UpperCase == <<"A", "B", "C", "D", "E", "F", "G", "H", "I", "J", "K", "L", "M",
               "N", "O", "P", "Q", "R", "S", "T", "U", "V", "W", "X", "Y", "Z">>

\* a lookup that keeps the case of the key
str_lower_kept(str) == str

\* str.lower()
str_lower(str) ==
    [i \in DOMAIN str |->
        IF \E k \in DOMAIN UpperCase : UpperCase[k] = str[i]
        THEN LowerCase[CHOOSE k \in DOMAIN UpperCase : UpperCase[k] = str[i]]
        ELSE str[i]]

\* str.upper() and str.capitalize(), to build the inputs
str_upper(str) ==
    [i \in DOMAIN str |->
        IF \E k \in DOMAIN LowerCase : LowerCase[k] = str[i]
        THEN UpperCase[CHOOSE k \in DOMAIN LowerCase : LowerCase[k] = str[i]]
        ELSE str[i]]

str_capitalize(str) ==
    [i \in DOMAIN str |-> IF i = 1 THEN str_upper(str)[i] ELSE str_lower(str)[i]]

seedling == <<"s", "e", "e", "d", "l", "i", "n", "g">>
vegetative == <<"v", "e", "g", "e", "t", "a", "t", "i", "v", "e">>
flowering == <<"f", "l", "o", "w", "e", "r", "i", "n", "g">>
fruiting == <<"f", "r", "u", "i", "t", "i", "n", "g">>
ripening == <<"r", "i", "p", "e", "n", "i", "n", "g">>

StageNames == {seedling, vegetative, flowering, fruiting, ripening}

\* the growth_stage arguments of the calls: the stages of the tables in
\* three spellings, and strings that are in no table
GrowthStages ==
    StageNames
    \cup {str_upper(g) : g \in StageNames}
    \cup {str_capitalize(g) : g \in StageNames}
    \cup {<<>>, <<"h", "a", "r", "v", "e", "s", "t">>, <<"s", "e", "e", "d">>,
          fruiting \o <<" ">>}

CropTypes == {"tomatoes", "lettuce"}
ZoneIds == {"A", "B"}

\* dict.get(key, default) on a table of pairs <<key, value>>
TableGet(table, key, default) ==
    IF \E e \in table : e[1] = key
    THEN (CHOOSE e \in table : e[1] = key)[2]
    ELSE default

\* stage_factors, in tenths
stage_factors ==
    {<<seedling, 3>>, <<vegetative, 6>>, <<flowering, 8>>, <<fruiting, 10>>,
     <<ripening, 7>>}

base_duration == 15
\* the default of stage_factors.get, in tenths
DefaultFactor == 7
\* litres per minute of the flow
FlowRate == 20

\* int(base_duration * factor), the factor in tenths
Duration(factor) == (base_duration * factor) \div 10

calculate_irrigation_schedule(zone_id, crop_type, growth_stage) ==
    LET factor == TableGet(stage_factors, str_lower(growth_stage), DefaultFactor)
        duration == Duration(factor)
    IN  [tool |-> "calculate_irrigation_schedule",
         zone_id |-> zone_id,
         crop_type |-> crop_type,
         growth_stage |-> growth_stage,
         schedule |->
            [next_irrigation |-> "06:00 AM",
             duration_minutes |-> duration,
             frequency |-> IF growth_stage \in {flowering, fruiting}
                           THEN "Daily" ELSE "Every 2 days",
             water_amount_liters |-> duration * FlowRate],
         water_need |-> IF factor > 7 THEN "high" ELSE "moderate"]

\* stage_npk
stage_npk ==
    {<<seedling, <<5, 5, 5>>>>, <<vegetative, <<10, 5, 8>>>>,
     <<flowering, <<5, 10, 15>>>>, <<fruiting, <<8, 12, 18>>>>,
     <<ripening, <<3, 8, 12>>>>}

DefaultNpk == <<5, 5, 5>>

Digits == <<"0", "1", "2", "3", "4", "5", "6", "7", "8", "9">>

\* str(n) of an int below 100
IntToStr(n) ==
    IF n < 10 THEN <<Digits[n + 1]>>
    ELSE <<Digits[(n \div 10) + 1], Digits[(n % 10) + 1]>>

\* f"{npk[0]}-{npk[1]}-{npk[2]}"
NpkRatio(npk) ==
    IntToStr(npk[1]) \o <<"-">> \o IntToStr(npk[2]) \o <<"-">> \o IntToStr(npk[3])

recommend_fertigation(crop_type, growth_stage) ==
    LET npk == TableGet(stage_npk, str_lower(growth_stage), DefaultNpk)
    IN  [tool |-> "recommend_fertigation",
         crop_type |-> crop_type,
         growth_stage |-> growth_stage,
         npk_ratio |-> NpkRatio(npk),
         \* grams per litre, in tenths
         mixing_instructions |->
            [nitrogen_g_per_L |-> npk[1], phosphorus_g_per_L |-> npk[2],
             potassium_g_per_L |-> npk[3]],
         application |->
            [frequency |-> IF growth_stage \in {flowering, fruiting}
                           THEN "Every irrigation" ELSE "Every other irrigation",
             \* in hundredths of a percent
             concentration_percent |-> IF growth_stage = seedling THEN 10 ELSE 15]]

\* the agent calls calculate_irrigation_schedule
CalculateIrrigationSchedule(zone_id, crop_type, growth_stage) ==
    /\ tool_output' = calculate_irrigation_schedule(zone_id, crop_type, growth_stage)
    /\ UNCHANGED <<threads, messages, runs, pc, req, next_pos, current_tokens,
                   reasoning_steps, tool_calls_made, exc, frames, emitted,
                   budget, vocabulary, agent_messages, response, farms,
                   overlapped>>

\* the agent calls recommend_fertigation
RecommendFertigation(crop_type, growth_stage) ==
    /\ tool_output' = recommend_fertigation(crop_type, growth_stage)
    /\ UNCHANGED <<threads, messages, runs, pc, req, next_pos, current_tokens,
                   reasoning_steps, tool_calls_made, exc, frames, emitted,
                   budget, vocabulary, agent_messages, response, farms,
                   overlapped>>

InitIdle ==
    InitWith([p \in Procs |-> "idle"], [p \in Procs |-> 0], [p \in Procs |-> {}])

NextTools ==
    \/ \E zone_id \in ZoneIds, crop_type \in CropTypes, growth_stage \in GrowthStages :
          CalculateIrrigationSchedule(zone_id, crop_type, growth_stage)
    \/ \E crop_type \in CropTypes, growth_stage \in GrowthStages :
          RecommendFertigation(crop_type, growth_stage)

SpecTools == InitIdle /\ [][NextTools]_vars

----
\* routers/farms.py (get_farm, update_farm, delete_farm), routers/zones.py
\* (get_farm_alerts) and core/auth.py (verify_farm_ownership)

\* table farm_zones; none of the routes below writes it
farm_zones == {[id |-> "z1", farm_id |-> "f1"], [id |-> "z2", farm_id |-> "f2"]}

ZoneAlert(id, zone_id, priority, created_at, is_resolved) ==
    [id |-> id, zone_id |-> zone_id, priority |-> priority,
     created_at |-> created_at, is_resolved |-> is_resolved]

\* table zone_alerts; none of the routes below writes it
zone_alerts ==
    {ZoneAlert("a1", "z1", 2, 1, FALSE), ZoneAlert("a2", "z1", 1, 2, TRUE),
     ZoneAlert("a3", "z1", 1, 3, FALSE), ZoneAlert("a4", "z2", 1, 1, FALSE)}

\* select(Farm).where(Farm.id == farm_id, Farm.owner_id == user.id);
\* return farm is not None
verify_farm_ownership(farm_id, user) ==
    farm_id \in DOMAIN farms /\ farms[farm_id].owner_id = user

FarmResponse(farm_id, farm) ==
    [id |-> farm_id, owner_id |-> farm.owner_id, name |-> farm.name,
     is_active |-> farm.is_active]

\* GET /farms/{farm_id}: 404 when no farm has the id; the value of
\* verify_farm_ownership is computed and dropped
GetFarm(farm_id, current_user) ==
    /\ LET owned == verify_farm_ownership(farm_id, current_user) IN
       response' = IF farm_id \notin DOMAIN farms THEN HTTPException(404)
                   ELSE Response(200, <<FarmResponse(farm_id, farms[farm_id])>>)
    /\ UNCHANGED <<threads, messages, runs, pc, req, next_pos, current_tokens,
                   reasoning_steps, tool_calls_made, exc, frames, emitted,
                   budget, vocabulary, agent_messages, farms, tool_output,
                   overlapped>>

\* FarmUpdate: a field left unset is <<>>, a field set is <<v>>
FarmUpdate(name, is_active) == [name |-> name, is_active |-> is_active]

FarmUpdates == {FarmUpdate(<<"renamed">>, <<>>), FarmUpdate(<<>>, <<TRUE>>)}

\* for field, value in update_data.items(): setattr(farm, field, value)
ApplyFarmUpdate(farm, farm_update) ==
    [farm EXCEPT !.name = IF farm_update.name # <<>> THEN farm_update.name[1] ELSE @,
                 !.is_active = IF farm_update.is_active # <<>>
                               THEN farm_update.is_active[1] ELSE @]

\* PATCH /farms/{farm_id}
UpdateFarm(farm_id, farm_update, current_user) ==
    /\ LET owned == verify_farm_ownership(farm_id, current_user) IN
       IF farm_id \notin DOMAIN farms
       THEN /\ farms' = farms
            /\ response' = HTTPException(404)
       ELSE /\ farms' = [farms EXCEPT ![farm_id] = ApplyFarmUpdate(@, farm_update)]
            /\ response' = Response(200,
                  <<FarmResponse(farm_id, ApplyFarmUpdate(farms[farm_id], farm_update))>>)
    /\ UNCHANGED <<threads, messages, runs, pc, req, next_pos, current_tokens,
                   reasoning_steps, tool_calls_made, exc, frames, emitted,
                   budget, vocabulary, agent_messages, tool_output, overlapped>>

\* DELETE /farms/{farm_id}: farm.is_active = False
DeleteFarm(farm_id, current_user) ==
    /\ LET owned == verify_farm_ownership(farm_id, current_user) IN
       IF farm_id \notin DOMAIN farms
       THEN /\ farms' = farms
            /\ response' = HTTPException(404)
       ELSE /\ farms' = [farms EXCEPT ![farm_id].is_active = FALSE]
            /\ response' = Response(204, <<>>)
    /\ UNCHANGED <<threads, messages, runs, pc, req, next_pos, current_tokens,
                   reasoning_steps, tool_calls_made, exc, frames, emitted,
                   budget, vocabulary, agent_messages, tool_output, overlapped>>

\* the values of the query parameter resolved; <<>> is None
ResolvedFilters == {<<>>, <<TRUE>>, <<FALSE>>}

\* ORDER BY priority, created_at DESC
AlertBefore(a, b) ==
    \/ a.priority < b.priority
    \/ a.priority = b.priority /\ a.created_at > b.created_at

\* the rows of a set in the order of the query
OrderedAlerts(S) ==
    CHOOSE seq \in [1..Cardinality(S) -> S] :
        /\ \A i, j \in 1..Cardinality(S) : i < j => AlertBefore(seq[i], seq[j])

\* GET /farms/{farm_id}/alerts: the alerts of the zones of the farm; no check
\* of the owner
GetFarmAlerts(farm_id, resolved, current_user) ==
    /\ LET zone_ids == {z.id : z \in {x \in farm_zones : x.farm_id = farm_id}}
           alerts == {a \in zone_alerts :
                         /\ a.zone_id \in zone_ids
                         /\ resolved # <<>> => a.is_resolved = resolved[1]}
       IN  response' = IF zone_ids = {} THEN Response(200, <<>>)
                       ELSE Response(200, OrderedAlerts(alerts))
    /\ UNCHANGED <<threads, messages, runs, pc, req, next_pos, current_tokens,
                   reasoning_steps, tool_calls_made, exc, frames, emitted,
                   budget, vocabulary, agent_messages, farms, tool_output,
                   overlapped>>

NextFarms ==
    \/ \E farm_id \in FarmIds, u \in Users : GetFarm(farm_id, u)
    \/ \E farm_id \in FarmIds, u \in Users, farm_update \in FarmUpdates :
          UpdateFarm(farm_id, farm_update, u)
    \/ \E farm_id \in FarmIds, u \in Users : DeleteFarm(farm_id, u)
    \/ \E farm_id \in FarmIds, u \in Users, resolved \in ResolvedFilters :
          GetFarmAlerts(farm_id, resolved, u)

SpecFarms == InitIdle /\ [][NextFarms]_vars

----
\* Vocabulary of the properties

UserMsgId(p) == uuid4(p, "user")
AssistantMsgId(p) == uuid4(p, "assistant")
RunId(p) == uuid4(p, "run")

\* the event generator of the request has ended, normally or by an exception
GeneratorEnded(p) == pc[p] \in {"finished", "escaped"}
\* the request is over, with or without a streamed response
RequestOver(p) == pc[p] \in {"finished", "escaped", "http_404", "http_500"}

IsTerminalFrame(f) == f.event \in {"done", "error"}
TerminalFrames(p) == {i \in DOMAIN frames[p] : IsTerminalFrame(frames[p][i])}
LastFrame(p) == frames[p][Len(frames[p])]

ErrorFrame(msg) == sse_event("error", [message |-> PyStr(msg)])

\* the frame the relay loop sends for one orchestrator event: <<f>> or <<>>
Image(e) ==
    IF e.event = "on_chat_model_stream"
    THEN IF e.data.content # ""
         THEN <<sse_event("token", [content |-> PyStr(e.data.content)])>>
         ELSE <<>>
    ELSE IF e.event = "on_tool_start"
    THEN IF e.name = ReasonTool
         THEN <<sse_event("reasoning", ReasoningStep(e.data.input))>>
         ELSE <<sse_event("tool_start", ToolCallStep(e.name, e.data.input))>>
    ELSE IF e.event = "on_tool_end" /\ JsonSerializable(e.data.output)
    THEN <<sse_event("tool_end", [tool |-> PyStr(e.name), output |-> e.data.output])>>
    ELSE <<>>

RECURSIVE Images(_)
Images(es) == IF es = <<>> THEN <<>> ELSE Image(Head(es)) \o Images(Tail(es))

\* concatenation, in order, of the content of the token frames of a sequence
RECURSIVE TokenText(_)
TokenText(fs) ==
    IF fs = <<>> THEN ""
    ELSE (IF Head(fs).event = "token" THEN Head(fs).data.content.v ELSE "")
         \o TokenText(Tail(fs))

----
\* C1: two concurrent run requests on one thread never leave two messages of
\* that thread with the same position.
C1_NoDuplicatePositions ==
    \A t \in ThreadIds :
        \A i, j \in DOMAIN ThreadMessages(t) :
            i # j => ThreadMessages(t)[i].position # ThreadMessages(t)[j].position

\* C2: as long as no two create_message calls on a thread overlapped, the
\* thread's positions are exactly 1..n in append order.
C2_SequentialPositions ==
    \A t \in ThreadIds :
        ~overlapped[t] =>
            \A i \in DOMAIN ThreadMessages(t) : ThreadMessages(t)[i].position = i

C2_Witness ==
    \E t \in ThreadIds :
        /\ ~overlapped[t]
        /\ Len(ThreadMessages(t)) = 4
        /\ ThreadMessages(t)[2].role = "assistant"
        /\ ThreadMessages(t)[3].role = "user"

\* C3: once a request is over, a user message it persisted has a run record
\* that reached completed or failed.
C3_UserMessageHasTerminalRun ==
    \A p \in Procs :
        (RequestOver(p) /\ MessageExists(UserMsgId(p))) =>
            /\ RunExists(RunId(p))
            /\ RunRow(RunId(p)).status \in {"completed", "failed"}

\* C4: a run row whose status is terminal is never changed by a later step.
C4_TerminalRunNeverChanges ==
    [][\A i \in DOMAIN runs :
          runs[i].status \in TerminalStatus =>
              \A j \in DOMAIN runs' :
                  runs'[j].id = runs[i].id => runs'[j] = runs[i]]_vars

\* C5: when the event generator has ended, the client's frames end with a
\* terminal frame and hold exactly one terminal frame.
C5_ExactlyOneTerminalFrameLast ==
    \A p \in Procs :
        GeneratorEnded(p) =>
            /\ frames[p] # <<>>
            /\ IsTerminalFrame(LastFrame(p))
            /\ Cardinality(TerminalFrames(p)) = 1

\* C6: a run whose status is failed has no assistant message.
C6_FailedRunHasNoAssistantMessage ==
    \A p \in Procs :
        (RunExists(RunId(p)) /\ RunRow(RunId(p)).status = "failed") =>
            ~MessageExists(AssistantMsgId(p))

\* C7: an exception raised inside the event generator never escapes it: the
\* run is committed as failed with {error: message} and completed_at, and the
\* client's last frame is the error event with the same message.
C7_ExceptionsAreCaught ==
    \A p \in Procs :
        /\ pc[p] # "escaped"
        /\ (pc[p] = "finished" /\ exc[p] # "") =>
              /\ RunExists(RunId(p))
              /\ RunRow(RunId(p)).status = "failed"
              /\ RunRow(RunId(p)).metadata_ = [error |-> exc[p]]
              /\ RunRow(RunId(p)).completed_at # NULL
              /\ LastFrame(p) = ErrorFrame(exc[p])

\* C8: when a database write fails after the run was committed as running
\* (the commit of the assistant message or of the run's completion), the run
\* attempt is aborted and the run row is left in the running state.
C8_WriteFailureLeavesRunning ==
    \A p \in Procs :
        (exc[p] = DbErrorMsg /\ RunExists(RunId(p))) =>
            /\ pc[p] \in {"except", "escaped", "disconnected"}
            /\ RunRow(RunId(p)).status = "running"
            /\ RunRow(RunId(p)).completed_at = NULL

C8_Witness ==
    \E p \in Procs :
        /\ pc[p] = "escaped"
        /\ exc[p] = DbErrorMsg
        /\ MessageExists(AssistantMsgId(p))
        /\ RunExists(RunId(p))
        /\ RunRow(RunId(p)).status = "running"

\* C9: the frames before the terminal one are the images of the
\* orchestrator's events in emission order, and when the orchestrator raised
\* the client has exactly those frames followed by one error frame.
C9_RelayedInOrderThenError ==
    \A p \in Procs :
        /\ Len(frames[p]) - Cardinality(TerminalFrames(p)) = Len(Images(emitted[p]))
        /\ \A i \in 1..Len(Images(emitted[p])) : frames[p][i] = Images(emitted[p])[i]
        /\ (GeneratorEnded(p) /\ exc[p] = OrchestratorErrorMsg) =>
              frames[p] = Images(emitted[p]) \o <<ErrorFrame(OrchestratorErrorMsg)>>

\* C10: the step after the completion commit relays the done event, whose
\* content is the concatenation of the relayed tokens and is the content of
\* the persisted assistant message.
C10_DoneContentIsTokenConcatenation ==
    [][\A p \in Procs :
          (pc[p] = "emit_done" /\ pc'[p] # "emit_done") =>
              /\ Len(frames'[p]) = Len(frames[p]) + 1
              /\ frames'[p][Len(frames'[p])].event = "done"
              /\ frames'[p][Len(frames'[p])].data.content = PyStr(TokenText(frames[p]))
              /\ MessageExists(AssistantMsgId(p)) =>
                    MessageRow(AssistantMsgId(p)).content = TokenText(frames[p])]_vars

\* C11: the step after the completion commit relays a done event that
\* carries the id of the run's assistant message and the id of the run, and
\* at that moment the run row is completed.
C11_DoneCarriesIdsOfCompletedRun ==
    [][\A p \in Procs :
          (pc[p] = "emit_done" /\ pc'[p] # "emit_done") =>
              /\ Len(frames'[p]) = Len(frames[p]) + 1
              /\ frames'[p][Len(frames'[p])].event = "done"
              /\ frames'[p][Len(frames'[p])].data.message_id.v = AssistantMsgId(p)
              /\ frames'[p][Len(frames'[p])].data.run_id.v = RunId(p)
              /\ RunExists(RunId(p)) => RunRow(RunId(p)).status = "completed"]_vars

\* C12: the message list handed to the orchestrator holds the current-turn
\* user message exactly once, as its final human message.
C12_CurrentTurnExactlyOnce ==
    \A p \in Procs :
        agent_messages[p] # <<>> =>
            LET ms == agent_messages[p] IN
            /\ Cardinality({i \in DOMAIN ms : ms[i].of = UserMsgId(p)}) = 1
            /\ ms[Len(ms)] = HumanMessage(req[p].content, UserMsgId(p))

MessageIndex(id) == CHOOSE i \in DOMAIN messages : messages[i].id = id

C12_Witness ==
    \E p, q \in Procs :
        /\ p # q
        /\ MessageExists(UserMsgId(p)) /\ MessageExists(UserMsgId(q))
        /\ MessageIndex(UserMsgId(p)) < MessageIndex(UserMsgId(q))
        /\ \E i \in DOMAIN agent_messages[p] : agent_messages[p][i].of = UserMsgId(q)

\* C13: a run whose client disconnected during the stream is marked failed or
\* cancelled.
C13_DisconnectedRunIsTerminated ==
    \A p \in Procs :
        (pc[p] = "disconnected" /\ RunExists(RunId(p))) =>
            RunRow(RunId(p)).status \in {"failed", "cancelled"}

\* C14: a run's completed_at is non-null exactly when its status is
\* terminal; it is null while the run is running.
C14_CompletedAtIffTerminal ==
    \A i \in DOMAIN runs :
        (runs[i].completed_at # NULL) <=> (runs[i].status \in TerminalStatus)

C14_Witness ==
    \E p \in Procs :
        /\ RunExists(RunId(p))
        /\ RunRow(RunId(p)).status = "failed"
        /\ RunRow(RunId(p)).completed_at = Now
        /\ exc[p] = TypeErrorMsg
        /\ MessageExists(AssistantMsgId(p))

\* C15: a thread-scoped route called with a thread that does not exist or is
\* not the caller's answers 404 and leaves threads, messages and runs as they
\* were; a rejected run request has streamed nothing, persisted no user
\* message and created no run.
C15_ForeignThreadIs404 ==
    [][/\ \A t \in ThreadIds, u \in Users :
            ~(ThreadExists(t) /\ threads[t].user_id = u) =>
                /\ (\/ GetThread(t, u)
                    \/ DeleteThread(t, u)
                    \/ \E payload \in Payloads : UpdateThread(t, u, payload)
                    \/ \E limit \in Limits : GetThreadMessages(t, u, limit)) =>
                       /\ response' = HTTPException(404)
                       /\ UNCHANGED <<threads, messages, runs>>
                /\ \A p \in Procs :
                      (/\ pc[p] = "start" /\ pc'[p] # "start"
                       /\ req'[p].thread_id = t /\ req'[p].user_id = u) =>
                          /\ pc'[p] = "http_404"
                          /\ UNCHANGED <<threads, messages, runs, frames>>
       /\ \A p \in Procs :
            pc[p] = "http_404" =>
                /\ frames[p] = <<>>
                /\ ~MessageExists(UserMsgId(p))
                /\ ~RunExists(RunId(p))]_vars

C15_Witness ==
    /\ response = HTTPException(404)
    /\ \E p \in Procs : pc[p] = "http_404" /\ ~ThreadExists(req[p].thread_id)
    /\ \E t \in DOMAIN threads : threads[t].title # NULL

\* C16: in every committed state a thread's last_message_at is set exactly
\* when the thread has at least one message.
C16_LastMessageAtIffMessages ==
    \A t \in DOMAIN threads :
        (threads[t].last_message_at # NULL) <=> (ThreadMessages(t) # <<>>)

C16_Witness ==
    \E t \in DOMAIN threads :
        /\ threads[t].last_message_at = Now
        /\ Len(ThreadMessages(t)) = 2
        /\ threads[t].title # NULL

\* the detail of the 404 of get_thread_or_404
NotFoundMsg == "Thread not found"

\* C17: create_message on a thread that no longer exists fails with NotFound
\* (404 for the user message, the NotFound error for the assistant message)
\* and persists no message.
C17_AppendToMissingThreadIsNotFound ==
    [][\A p \in Procs :
          (CreateMessageCommit(p) /\ ~ThreadExists(req[p].thread_id)) =>
              /\ messages' = messages
              /\ IF pc[p] = "user_commit" THEN pc'[p] = "http_404"
                 ELSE exc'[p] = NotFoundMsg]_vars

\* the reasoning steps the run records for a sequence of orchestrator events
RECURSIVE ReasoningOf(_)
ReasoningOf(es) ==
    IF es = <<>> THEN <<>>
    ELSE (IF Head(es).event = "on_tool_start" /\ Head(es).name = ReasonTool
          THEN <<ReasoningStep(Head(es).data.input)>> ELSE <<>>)
         \o ReasoningOf(Tail(es))

\* the tool calls the run records for a sequence of orchestrator events
RECURSIVE ToolCallsOf(_)
ToolCallsOf(es) ==
    IF es = <<>> THEN <<>>
    ELSE (IF Head(es).event = "on_tool_start" /\ Head(es).name # ReasonTool
          THEN <<ToolCallStep(Head(es).name, Head(es).data.input)>> ELSE <<>>)
         \o ToolCallsOf(Tail(es))

\* C18: the metadata of a run's assistant message holds the reasoning steps
\* and the tool calls of the run in emission order, one tool call for each
\* tool start that is no reasoning step and none for a tool end, and the
\* metadata of the completed run holds the same two lists.
C18_MetadataHoldsStepsInOrder ==
    \A p \in Procs :
        /\ MessageExists(AssistantMsgId(p)) =>
              /\ MessageRow(AssistantMsgId(p)).metadata_.reasoning_steps =
                    ReasoningOf(emitted[p])
              /\ MessageRow(AssistantMsgId(p)).metadata_.tool_calls =
                    ToolCallsOf(emitted[p])
        /\ (RunExists(RunId(p)) /\ RunRow(RunId(p)).status = "completed") =>
              RunRow(RunId(p)).metadata_ =
                  [reasoning_steps |-> ReasoningOf(emitted[p]),
                   tool_calls |-> ToolCallsOf(emitted[p])]

C18_Witness ==
    \E p \in Procs :
        /\ MessageExists(AssistantMsgId(p))
        /\ RunExists(RunId(p))
        /\ RunRow(RunId(p)).status = "completed"
        /\ Len(ReasoningOf(emitted[p])) = 1
        /\ Len(ToolCallsOf(emitted[p])) = 1
        /\ \E i \in DOMAIN emitted[p] : emitted[p][i].event = "on_tool_end"

\* C19: when a run's stream has ended and both its messages are in the
\* thread with no other append in between, the user message is at position
\* n+1 and was there before the run, the assistant message is at position
\* n+2, and the run is completed.
C19_PositionsAndCompleted ==
    \A p \in Procs :
        /\ RunExists(RunId(p)) => MessageExists(UserMsgId(p))
        /\ (/\ pc[p] = "finished"
            /\ RunExists(RunId(p))
            /\ MessageExists(AssistantMsgId(p))
            /\ ~overlapped[req[p].thread_id]) =>
              LET ms == ThreadMessages(req[p].thread_id)
                  iu == CHOOSE i \in DOMAIN ms : ms[i].id = UserMsgId(p)
              IN  ms[iu + 1].id = AssistantMsgId(p) =>
                     /\ ms[iu].position = iu
                     /\ ms[iu + 1].position = iu + 1
                     /\ RunRow(RunId(p)).status = "completed"

\* C20: a committed message row never changes, and it leaves the table only
\* when its thread is deleted.
C20_MessagesAppendOnly ==
    [][\A i \in DOMAIN messages :
          \/ \E j \in DOMAIN messages' : messages'[j] = messages[i]
          \/ messages[i].thread_id \notin DOMAIN threads']_vars

C20_Witness ==
    /\ \E p \in Procs :
          /\ pc[p] = "finished"
          /\ MessageExists(UserMsgId(p))
          /\ MessageExists(AssistantMsgId(p))
    /\ DOMAIN threads # ThreadIds
    /\ response.status = 200

\* C21: every message and every run references an existing thread, also
\* when delete_thread interleaves with a run that is streaming on the thread.
C21_NoOrphanRows ==
    /\ \A i \in DOMAIN messages : ThreadExists(messages[i].thread_id)
    /\ \A i \in DOMAIN runs : ThreadExists(runs[i].thread_id)

C21_Witness ==
    \E p \in Procs :
        /\ pc[p] = "stream"
        /\ emitted[p] # <<>>
        /\ ~ThreadExists(req[p].thread_id)
        /\ ~RunExists(RunId(p))
        /\ ~MessageExists(UserMsgId(p))

\* C22: the messages route answers, for the caller's thread, with messages of
\* that thread only, in ascending position, and with the first min(L, n) of
\* them by position.
C22_FirstMessagesByPosition ==
    [][\A t \in ThreadIds, u \in Users, limit \in Limits :
          (GetThreadMessages(t, u, limit) /\ ThreadExists(t)
                                          /\ threads[t].user_id = u) =>
              LET body == response'.body
                  rows == ThreadMessages(t)
                  shown == {body[i].id : i \in DOMAIN body}
              IN  /\ response'.status = 200
                  /\ Len(body) = Min(limit, Len(rows))
                  /\ Cardinality(shown) = Len(body)
                  /\ \A i \in DOMAIN body :
                        /\ body[i].thread_id = t
                        /\ \E k \in DOMAIN rows : MessageResponse(rows[k]) = body[i]
                  /\ \A i, k \in DOMAIN body :
                        i < k => body[i].position <= body[k].position
                  /\ \A i \in DOMAIN body, k \in DOMAIN rows :
                        rows[k].id \notin shown =>
                            body[i].position <= rows[k].position]_vars

C22_Witness ==
    /\ response.status = 200
    /\ Len(response.body) = 1
    /\ "position" \in DOMAIN response.body[1]
    /\ \E t \in DOMAIN threads :
          /\ response.body[1].thread_id = t
          /\ Len(ThreadMessages(t)) = 2

\* C25: every run row is running, completed or failed and has started_at
\* set; no run is ever pending or cancelled.
C25_RunStatusIsRunningCompletedOrFailed ==
    \A i \in DOMAIN runs :
        /\ runs[i].status \in {"running", "completed", "failed"}
        /\ runs[i].started_at # NULL

C25_Witness ==
    \E p \in Procs :
        /\ pc[p] = "disconnected"
        /\ RunExists(RunId(p))
        /\ RunRow(RunId(p)).status = "running"
        /\ RunRow(RunId(p)).started_at = Now

\* C26: a tool start named reason_step is appended to reasoning_steps alone
\* and relayed as a reasoning event; any other tool start is appended to the
\* tool calls alone and relayed as a tool_start event.
C26_ToolStartRecordedOnce ==
    [][\A p \in Procs :
          (/\ Len(emitted'[p]) = Len(emitted[p]) + 1
           /\ emitted'[p][Len(emitted'[p])].event = "on_tool_start") =>
              LET e == emitted'[p][Len(emitted'[p])]
                  f == frames'[p][Len(frames'[p])]
              IN  /\ Len(frames'[p]) = Len(frames[p]) + 1
                  /\ IF e.name = "reason_step"
                     THEN /\ reasoning_steps'[p] =
                                Append(reasoning_steps[p], ReasoningStep(e.data.input))
                          /\ tool_calls_made'[p] = tool_calls_made[p]
                          /\ f = sse_event("reasoning", ReasoningStep(e.data.input))
                     ELSE /\ tool_calls_made'[p] =
                                Append(tool_calls_made[p], ToolCallStep(e.name, e.data.input))
                          /\ reasoning_steps'[p] = reasoning_steps[p]
                          /\ f = sse_event("tool_start", ToolCallStep(e.name, e.data.input))]_vars

C26_Witness ==
    \E p \in Procs :
        /\ pc[p] = "stream"
        /\ Len(emitted[p]) = 2
        /\ Len(reasoning_steps[p]) = 1
        /\ Len(tool_calls_made[p]) = 1
        /\ frames[p][1].event = "tool_start"
        /\ frames[p][2].event = "reasoning"

\* the assistant messages of a thread that name a run in their metadata
AssistantMessagesOfRun(thread_id, run_id) ==
    {j \in DOMAIN messages :
        /\ messages[j].role = "assistant"
        /\ messages[j].thread_id = thread_id
        /\ messages[j].metadata_.run_id = run_id}

\* C27: each completed run has exactly one assistant message in its thread
\* whose metadata names the run, and no two assistant messages name the same
\* run.
C27_CompletedRunHasItsAssistantMessage ==
    /\ \A i \in DOMAIN runs :
          runs[i].status = "completed" =>
              Cardinality(AssistantMessagesOfRun(runs[i].thread_id, runs[i].id)) = 1
    /\ \A j, k \in DOMAIN messages :
          (/\ j # k
           /\ messages[j].role = "assistant"
           /\ messages[k].role = "assistant") =>
              messages[j].metadata_.run_id # messages[k].metadata_.run_id

C27_Witness ==
    \E p, q \in Procs :
        /\ p # q
        /\ RunExists(RunId(p)) /\ RunRow(RunId(p)).status = "completed"
        /\ MessageExists(AssistantMsgId(p))
        /\ MessageExists(AssistantMsgId(q))
        /\ req[p].thread_id = req[q].thread_id

\* the rows of a thread in the three tables
RowsOf(b, ths, msgs, rns) ==
    <<IF b \in DOMAIN ths THEN <<ths[b]>> ELSE <<>>,
      SelectSeq(msgs, LAMBDA m : m.thread_id = b),
      SelectSeq(rns, LAMBDA r : r.thread_id = b)>>

\* C29: a step of a run on one thread leaves the messages, the runs and the
\* row of every other thread as they were.
C29_RunsAreIsolatedAcrossThreads ==
    [][\A p \in Procs :
          (pc'[p] # pc[p] \/ budget'[p] # budget[p]) =>
              \A b \in ThreadIds \ {req'[p].thread_id} :
                  RowsOf(b, threads', messages', runs') =
                      RowsOf(b, threads, messages, runs)]_vars

C29_Witness ==
    \E p, q \in Procs :
        /\ req[p].thread_id = "t1" /\ req[q].thread_id = "t2"
        /\ RunExists(RunId(p)) /\ RunRow(RunId(p)).status = "failed"
        /\ RunExists(RunId(q)) /\ RunRow(RunId(q)).status = "running"
        /\ MessageExists(AssistantMsgId(q))

\* C28: when the orchestrator starts tools of the registry only, no
\* reasoning event is relayed and the reasoning_steps persisted in the
\* metadata of messages and runs are empty.
C28_NoReasoningWithRegistryTools ==
    /\ \A p \in Procs : \A i \in DOMAIN frames[p] : frames[p][i].event # "reasoning"
    /\ \A j \in DOMAIN messages :
          "reasoning_steps" \in DOMAIN messages[j].metadata_ =>
              messages[j].metadata_.reasoning_steps = <<>>
    /\ \A i \in DOMAIN runs :
          "reasoning_steps" \in DOMAIN runs[i].metadata_ =>
              runs[i].metadata_.reasoning_steps = <<>>

C28_Witness ==
    \E p \in Procs :
        /\ RunExists(RunId(p))
        /\ RunRow(RunId(p)).status = "completed"
        /\ RunRow(RunId(p)).metadata_.reasoning_steps = <<>>
        /\ Len(RunRow(RunId(p)).metadata_.tool_calls) = 2
        /\ MessageExists(AssistantMsgId(p))
        /\ Len(frames[p]) = 2

\* a history row mapped role for role
Mapped(m) ==
    IF m.role = "user" THEN HumanMessage(m.content, m.id)
    ELSE IF m.role = "assistant" THEN AIMessage(m.content, m.id)
    ELSE SystemMessage(m.content, m.id)

\* C24: the orchestrator's input is the system instruction, then the last 20
\* messages that precede the current turn (all of them when there are fewer),
\* oldest first and mapped role for role, then the current content as the
\* final human message.
C24_PromptTrailingTwentyThenCurrent ==
    \A p \in Procs :
        (agent_messages[p] # <<>> /\ MessageExists(UserMsgId(p))) =>
            LET rows == ThreadMessages(req[p].thread_id)
                iu == CHOOSE i \in DOMAIN rows : rows[i].id = UserMsgId(p)
                n == iu - 1
                k == IF n <= 20 THEN n ELSE 20
            IN  agent_messages[p] =
                    <<SystemMessage(get_system_prompt, <<"system", "prompt">>)>>
                    \o [i \in 1..k |-> Mapped(rows[n - k + i])]
                    \o <<HumanMessage(req[p].content, UserMsgId(p))>>

\* two strings that differ in the case of their letters at most
EqualIgnoringCase(a, b) ==
    /\ Len(a) = Len(b)
    /\ \A i \in DOMAIN a :
          \/ a[i] = b[i]
          \/ \E k \in 1..26 : {a[i], b[i]} = {LowerCase[k], UpperCase[k]}

\* the stages of the tables a string names, whatever the case of its letters
Recognised(g) == {n \in StageNames : EqualIgnoringCase(g, n)}

\* C23: for every growth_stage the two tools return a result; a stage that
\* is in no table gives 10 minutes, 200 litres and NPK 5-5-5, a stage of the
\* tables in any case gives its own entry, and the litres are 20 times the
\* minutes.
C23_ToolsDefaultOnUnknownStage ==
    /\ tool_output.tool = "calculate_irrigation_schedule" =>
          LET g == tool_output.growth_stage
              minutes == tool_output.schedule.duration_minutes
          IN  /\ tool_output.schedule.water_amount_liters = 20 * minutes
              /\ Recognised(g) = {} =>
                    /\ minutes = 10
                    /\ tool_output.schedule.water_amount_liters = 200
              /\ seedling \in Recognised(g) => minutes = 4
              /\ vegetative \in Recognised(g) => minutes = 9
              /\ flowering \in Recognised(g) => minutes = 12
              /\ fruiting \in Recognised(g) => minutes = 15
              /\ ripening \in Recognised(g) => minutes = 10
    /\ tool_output.tool = "recommend_fertigation" =>
          LET g == tool_output.growth_stage
              ratio == tool_output.npk_ratio
          IN  /\ Recognised(g) = {} => ratio = <<"5", "-", "5", "-", "5">>
              /\ seedling \in Recognised(g) => ratio = <<"5", "-", "5", "-", "5">>
              /\ vegetative \in Recognised(g) => ratio = <<"1", "0", "-", "5", "-", "8">>
              /\ flowering \in Recognised(g) => ratio = <<"5", "-", "1", "0", "-", "1", "5">>
              /\ fruiting \in Recognised(g) => ratio = <<"8", "-", "1", "2", "-", "1", "8">>
              /\ ripening \in Recognised(g) => ratio = <<"3", "-", "8", "-", "1", "2">>

C23_Witness ==
    /\ tool_output.tool = "calculate_irrigation_schedule"
    /\ tool_output.growth_stage = <<"F", "R", "U", "I", "T", "I", "N", "G">>
    /\ tool_output.schedule.water_amount_liters = 300

\* C30: a caller who is not the owner of a farm is refused by get_farm,
\* update_farm, delete_farm and get_farm_alerts: the farm and its alerts are
\* neither returned nor changed.
C30_OnlyTheOwnerReachesAFarm ==
    [][\A farm_id \in DOMAIN farms, u \in Users :
          (/\ farms[farm_id].owner_id # u
           /\ \/ GetFarm(farm_id, u)
              \/ DeleteFarm(farm_id, u)
              \/ \E farm_update \in FarmUpdates : UpdateFarm(farm_id, farm_update, u)
              \/ \E resolved \in ResolvedFilters : GetFarmAlerts(farm_id, resolved, u)) =>
              /\ response'.status \in {403, 404}
              /\ response'.body = <<>>
              /\ farms' = farms]_vars

====
